---- MODULE Spec2Model ----
(***************************************************************************)
(* KeywordHarvester (src/src/harvester/keyword_harvester.py): the          *)
(* autocomplete keyword harvester and its breadth-first expansion loop.    *)
(*                                                                         *)
(* Python strings are sequences of one-character strings, so that          *)
(* str.lower(), str.strip() and the f-string query construction are        *)
(* computed rather than assumed.                                           *)
(***************************************************************************)
EXTENDS Integers, Sequences, FiniteSets, TLC

(***************************************************************************)
(* Bounds of the model.                                                    *)
(***************************************************************************)
\* longest seed list handed to harvest_keywords
MaxSeeds == 2
\* harvest_keywords calls on one KeywordHarvester
MaxRuns == 2
\* suggestions the endpoint supplies to one harvest_keywords call
MaxSupplied == 2
\* options of one command line that differ from BaseOptions
MaxVaried == 2

(***************************************************************************)
(* Strings.                                                                *)
(***************************************************************************)
\* str.lower() on one character; the upper-case characters of the model
LowerChar(c) ==
    CASE c = "A" -> "a"
      [] c = "B" -> "b"
      [] c = "C" -> "c"
      [] OTHER -> c

\* str.lower()
Lower(s) == [i \in 1..Len(s) |-> LowerChar(s[i])]

\* the characters str.strip() removes
IsSpace(c) == c \in {" ", "\t", "\n"}

RECURSIVE LStrip(_)
LStrip(s) == IF s # <<>> /\ IsSpace(Head(s)) THEN LStrip(Tail(s)) ELSE s

RECURSIVE RStrip(_)
RStrip(s) ==
    IF s # <<>> /\ IsSpace(s[Len(s)]) THEN RStrip(SubSeq(s, 1, Len(s) - 1)) ELSE s

\* str.strip()
Strip(s) == RStrip(LStrip(s))

\* seed.strip().lower()
NormalizeSeed(seed) == Lower(Strip(seed))

\* suggestion['keyword'].lower().strip()
NormalizeKeyword(kw) == Strip(Lower(kw))

(***************************************************************************)
(* Modifier vocabularies.                                                  *)
(***************************************************************************)
ALPHABET ==
    << <<"a">>, <<"b">>, <<"c">>, <<"d">>, <<"e">>, <<"f">>, <<"g">>, <<"h">>,
       <<"i">>, <<"j">>, <<"k">>, <<"l">>, <<"m">>, <<"n">>, <<"o">>, <<"p">>,
       <<"q">>, <<"r">>, <<"s">>, <<"t">>, <<"u">>, <<"v">>, <<"w">>, <<"x">>,
       <<"y">>, <<"z">> >>

QUESTION_WORDS ==
    << <<"h","o","w">>, <<"w","h","a","t">>, <<"w","h","y">>,
       <<"w","h","e","n">>, <<"w","h","e","r","e">>, <<"w","h","o">>,
       <<"w","h","i","c","h">>, <<"a","r","e">>, <<"i","s">>,
       <<"c","a","n">>, <<"w","i","l","l">> >>

PREPOSITIONS ==
    << <<"f","o","r">>, <<"w","i","t","h">>,
       <<"w","i","t","h","o","u","t">>, <<"n","e","a","r">>, <<"i","n">>,
       <<"a","t">>, <<"t","o">>, <<"f","r","o","m">>, <<"v","s">>,
       <<"v","e","r","s","u","s">> >>

\* a query built with the modifier after the keyword, wherever it belongs
ModifierQuerySuffixed(seed_keyword, modifier, position) ==
    seed_keyword \o <<" ">> \o modifier

\* the query _expand_with_modifiers builds for one modifier
ModifierQuery(seed_keyword, modifier, position) ==
    IF position = "suffix"
    THEN seed_keyword \o <<" ">> \o modifier
    ELSE modifier \o <<" ">> \o seed_keyword

(***************************************************************************)
(* The autocomplete endpoint's answer to one GET, as _fetch_suggestions    *)
(* sees it.  A parsed JSON value is a record: t is its Python type, items  *)
(* the elements of a list, key whether a dict holds                        *)
(* 'google:suggestrelevance' and rel the scores under that key.  An item   *)
(* of the suggestion list is [isstr, s]: a string s, or a non-string.      *)
(***************************************************************************)
JStr == [t |-> "str", items |-> <<>>, key |-> FALSE, rel |-> <<>>]
JNum == [t |-> "num", items |-> <<>>, key |-> FALSE, rel |-> <<>>]
JList(items) == [t |-> "list", items |-> items, key |-> FALSE, rel |-> <<>>]
JDict(key, rel) == [t |-> "dict", items |-> <<>>, key |-> key, rel |-> rel]

StrItem(s) == [isstr |-> TRUE, s |-> s]
NonStrItem == [isstr |-> FALSE, s |-> <<>>]

\* exc: what session.get / response.text() raise; status: response.status;
\* parses: whether json.loads accepts the body; islist and elems: the parsed
\* value, elems[i] being Python's data[i - 1]
Response(exc, status, parses, islist, elems) ==
    [exc |-> exc, status |-> status, parses |-> parses, islist |-> islist,
     elems |-> elems]

\* a loop over enumerate(suggestions) that keeps every suggestion
RECURSIVE BuildResultsUnfiltered(_, _, _, _, _)
BuildResultsUnfiltered(items, relevance_scores, query, min_rel, i) ==
    IF i > Len(items) THEN <<>>
    ELSE << [keyword |-> items[i],
             relevance |-> IF i <= Len(relevance_scores)
                           THEN relevance_scores[i] ELSE 0,
             type |-> "QUERY", source_query |-> query, depth |-> 0] >>
         \o BuildResultsUnfiltered(items, relevance_scores, query, min_rel, i + 1)

\* the loop over enumerate(suggestions): relevance_scores[idx] if
\* idx < len(relevance_scores) else 0, kept if relevance >= min_relevance
RECURSIVE BuildResults(_, _, _, _, _)
BuildResults(items, relevance_scores, query, min_rel, i) ==
    IF i > Len(items) THEN <<>>
    ELSE LET relevance ==
                 IF i <= Len(relevance_scores) THEN relevance_scores[i] ELSE 0
             rest == BuildResults(items, relevance_scores, query, min_rel, i + 1)
         IN  IF relevance >= min_rel
             THEN << [keyword |-> items[i], relevance |-> relevance,
                      type |-> "QUERY", source_query |-> query,
                      depth |-> 0] >> \o rest
             ELSE rest

\* the scores looked for in the last of four elements
MetadataOfFour(elems) == IF Len(elems) > 3 THEN elems[4] ELSE JDict(FALSE, <<>>)

\* metadata = data[4] if len(data) > 4 else {}
Metadata(elems) == IF Len(elems) > 4 THEN elems[5] ELSE JDict(FALSE, <<>>)

\* _fetch_suggestions: the list it returns and whether it slept before
\* returning
FetchSuggestions(query, resp, min_rel) ==
    IF resp.exc # "none" THEN [results |-> <<>>, slept |-> FALSE]
    ELSE IF resp.status # 200 THEN [results |-> <<>>, slept |-> FALSE]
    ELSE IF ~resp.parses THEN [results |-> <<>>, slept |-> FALSE]
    ELSE IF ~resp.islist \/ Len(resp.elems) < 2
         THEN [results |-> <<>>, slept |-> FALSE]
    ELSE LET suggestions == resp.elems[2]
             metadata == Metadata(resp.elems)
             relevance_scores ==
                 IF metadata.t = "dict" /\ metadata.key THEN metadata.rel
                 ELSE <<>>
         IN  IF suggestions.t = "num"
             \* enumerate() of a number raises TypeError, which the
             \* handler's `except Exception` turns into []
             THEN [results |-> <<>>, slept |-> FALSE]
             ELSE [results |-> BuildResults(suggestions.items, relevance_scores,
                                            query, min_rel, 1),
                   \* asyncio.sleep(self.rate_limit_delay), then return results
                   slept |-> TRUE]

\* batch_size of _expand_with_modifiers
batch_size == 10

RECURSIVE Flatten(_)
Flatten(lists) == IF lists = <<>> THEN <<>> ELSE Head(lists) \o Flatten(Tail(lists))

Min(a, b) == IF a < b THEN a ELSE b

\* for i in range(0, len(tasks), batch_size): the results of the batch
\* tasks[i:i + batch_size], in task order (asyncio.gather keeps it), appended
\* to all_results
RECURSIVE GatherBatches(_, _)
GatherBatches(task_results, i) ==
    IF i > Len(task_results) THEN <<>>
    ELSE Flatten(SubSeq(task_results, i, Min(i + batch_size - 1, Len(task_results))))
         \o GatherBatches(task_results, i + batch_size)

\* _expand_with_modifiers: one fetch per modifier, answers[i] being the
\* endpoint's answer to the i-th query
ExpandWithModifiers(seed_keyword, modifiers, position, answers, min_rel) ==
    LET task_results ==
            [i \in 1..Len(modifiers) |->
                FetchSuggestions(ModifierQuery(seed_keyword, modifiers[i], position),
                                 answers[i], min_rel).results]
    IN  GatherBatches(task_results, 1)

\* keyword_data.sort(key=lambda x: x.get('relevance', 0), reverse=True):
\* list.sort is stable, also under reverse=True; an insertion sort that puts
\* each entry after the entries of greater or equal relevance
\* an insertion that puts an entry before the entries of equal relevance
RECURSIVE InsertBeforeTies(_, _)
InsertBeforeTies(sorted, x) ==
    IF sorted = <<>> THEN <<x>>
    ELSE IF Head(sorted).relevance > x.relevance
         THEN <<Head(sorted)>> \o InsertBeforeTies(Tail(sorted), x)
         ELSE <<x>> \o sorted

RECURSIVE InsertByRelevance(_, _)
InsertByRelevance(sorted, x) ==
    IF sorted = <<>> THEN <<x>>
    ELSE IF Head(sorted).relevance >= x.relevance
         THEN <<Head(sorted)>> \o InsertByRelevance(Tail(sorted), x)
         ELSE <<x>> \o sorted

RECURSIVE SortPrefix(_, _)
SortPrefix(data, n) ==
    IF n = 0 THEN <<>> ELSE InsertByRelevance(SortPrefix(data, n - 1), data[n])

SortByRelevance(data) == SortPrefix(data, Len(data))

(***************************************************************************)
(* The inputs of the model: constructor arguments, harvest_keywords        *)
(* arguments and the answers of the autocomplete endpoint.                 *)
(***************************************************************************)
\* --max-depth: any int
MaxDepthChoices == {-1, 0, 1}
\* --max-suggestions: any int; 100 is the default
PerSeedChoices == {0, 1, 3, 100}
\* --min-relevance
MinRelevanceChoices == {0, 1}
\* google:suggestrelevance scores
RelValues == {0, 1}
\* raw seeds: "a" and " B"
SeedPool == { <<"a">>, <<" ", "B">> }
\* raw suggestions: "A " and "c"
ItemPool == { StrItem(<<"A", " ">>), StrItem(<<"c">>) }

SeqsUpTo(S, n) == UNION { [1..k -> S] : k \in 0..n }

\* [echo, [suggestions], [], [], {'google:suggestrelevance': scores}]
Payload5(items, scores) ==
    Response("none", 200, TRUE, TRUE,
             <<JStr, JList(items), JList(<<>>), JList(<<>>), JDict(TRUE, scores)>>)
\* [echo, [suggestions], [], {'google:suggestrelevance': scores}]
Payload4(items, scores) ==
    Response("none", 200, TRUE, TRUE,
             <<JStr, JList(items), JList(<<>>), JDict(TRUE, scores)>>)
\* [echo, [suggestions]]
Payload2(items) == Response("none", 200, TRUE, TRUE, <<JStr, JList(items)>>)

\* answers that carry no usable suggestion list
FailureResponses ==
    { Response("timeout", 200, TRUE, TRUE, <<>>),
      Response("error", 200, TRUE, TRUE, <<>>),
      Response("none", 429, TRUE, TRUE, <<>>),
      Response("none", 200, FALSE, TRUE, <<>>),
      Response("none", 200, TRUE, FALSE, <<>>),
      Response("none", 200, TRUE, TRUE, <<JStr>>),
      Response("none", 200, TRUE, TRUE, <<JStr, JNum>>) }

\* answers with a suggestion list of at most room items
\* suggestion lists of at most n items: strings, or strings and then an item
\* that is no string
ItemLists(n) ==
    SeqsUpTo(ItemPool, n) \cup
    { Append(items, NonStrItem) : items \in SeqsUpTo(ItemPool, n - 1) }

OkResponses(room) ==
    UNION { { Payload5(items, scores) : scores \in [1..Len(items) -> RelValues] }
          : items \in ItemLists(room) }

SourceResponses(room) == FailureResponses \cup OkResponses(room)

\* number of suggestions an answer carries
Size(resp) ==
    IF resp.exc = "none" /\ resp.status = 200 /\ resp.parses /\ resp.islist
       /\ Len(resp.elems) >= 2
    THEN Len(resp.elems[2].items) ELSE 0

\* SourceResponses, by room
ResponseTable == [room \in 0..MaxSupplied |-> SourceResponses(room)]

\* the answers to the query of the head modifier of a vocabulary: a list of
\* string suggestions, or a failure
HeadResponses(room) ==
    { Response("none", 429, TRUE, TRUE, <<>>) } \cup
    UNION { { Payload5(items, scores) : scores \in [1..Len(items) -> RelValues] }
          : items \in SeqsUpTo(ItemPool, room) }

HeadTable == [room \in 0..MaxSupplied |-> HeadResponses(room)]

\* the answers to the queries of the later modifiers of a vocabulary: all
\* fail, or all carry an empty suggestion list
QuietResponses == { Response("timeout", 200, TRUE, TRUE, <<>>), Payload2(<<>>) }

\* the answers to the queries of a vocabulary
Answers(modifiers, head, quiet) ==
    [i \in 1..Len(modifiers) |-> IF i = 1 THEN head ELSE quiet]

(***************************************************************************)
(* State.                                                                  *)
(***************************************************************************)
VARIABLES
    max_depth,                  \* self.max_depth
    min_relevance,              \* self.min_relevance
    max_suggestions_per_seed,   \* self.max_suggestions_per_seed
    all_keywords,               \* self.all_keywords
    keyword_data,               \* self.keyword_data
    seed_keywords,              \* harvest_keywords argument
    use_alphabet,               \* harvest_keywords argument
    use_questions,              \* harvest_keywords argument
    use_prepositions,           \* harvest_keywords argument
    recursive,                  \* harvest_keywords argument
    queue,                      \* local deque of (keyword, depth)
    current_keyword,            \* local
    depth,                      \* local
    all_suggestions,            \* local: base + alphabet + question + preposition
    si,                         \* position of the loop over all_suggestions
    pc,                         \* where harvest_keywords is
    run,                        \* history: harvest_keywords calls so far
    discovered,                 \* history: normalized keywords as accepted
    tripped,                    \* history: the breaker fired in this call
    supplied,                   \* history: suggestions supplied to this call
    enqueued,                   \* history: every entry appended to queue in this call
    expanded,                   \* history: every entry taken from the queue and expanded in this call
    issued,                     \* history: the fetch groups issued for the current entry
    in_flight,                  \* the _fetch_suggestions coroutines running
    started,                    \* tasks of the current fetch group started so far
    sent,                       \* history: the queries sent for the current entry, in task order
    returned,                   \* the non-empty results of the current await, as they arrived
    stage,                      \* where the `harvest` command is
    keywords,                   \* harvest option -k, as many times as given
    keywords_file,              \* harvest option -f: the file, if given
    exported,                   \* the export file the command wrote
    stats,                      \* what get_statistics returned last
    stats_from,                 \* history: keyword_data and all_keywords as that call left them
    last_fetch                  \* the latest _fetch_suggestions call made on its own

vars == <<max_depth, min_relevance, max_suggestions_per_seed, all_keywords,
          keyword_data, seed_keywords, use_alphabet, use_questions,
          use_prepositions, recursive, queue, current_keyword, depth,
          all_suggestions, si, pc, run, discovered, tripped, supplied, enqueued, issued,
          expanded, in_flight, started, sent, returned, stage, keywords, keywords_file, exported, stats,
          stats_from, last_fetch>>

sched == <<in_flight, started, sent, returned>>
command == <<stage, keywords, keywords_file, exported, stats, stats_from>>
config == <<max_depth, min_relevance, max_suggestions_per_seed>>
args == <<seed_keywords, use_alphabet, use_questions, use_prepositions, recursive>>

SeedLists == SeqsUpTo(SeedPool, MaxSeeds)

\* the options of one `harvest` command line (cli.py): the constructor's
\* arguments and those of harvest_keywords
AllOptions ==
    [max_depth : MaxDepthChoices, min_relevance : MinRelevanceChoices,
     per_seed : PerSeedChoices, seeds : SeedLists, alphabet : BOOLEAN,
     questions : BOOLEAN, prepositions : BOOLEAN, recursive : BOOLEAN]

\* one seed " B", depth 1, recursive, no modifier vocabulary, default cap
BaseOptions ==
    [max_depth |-> 1, min_relevance |-> 0, per_seed |-> 100,
     seeds |-> << <<" ", "B">> >>, alphabet |-> FALSE, questions |-> FALSE,
     prepositions |-> FALSE, recursive |-> TRUE]

Varied(o) == Cardinality({ f \in DOMAIN o : o[f] # BaseOptions[f] })

\* the command lines of the model: every combination of options that
\* differs from BaseOptions in at most n options
Options(n) == { o \in AllOptions : Varied(o) <= n }

NoFetch ==
    [issued |-> FALSE, query |-> <<>>, resp |-> Payload2(<<>>), results |-> <<>>,
     slept |-> FALSE]

\* no -f option
NoFile == [given |-> FALSE, lines |-> <<>>]
NoExport == [written |-> FALSE, data |-> <<>>]
NoStatistics == [computed |-> FALSE]

\* the harvester's limits and the harvest_keywords flags are those of the
\* options o
Chosen(o) ==
    /\ max_depth = o.max_depth
    /\ min_relevance = o.min_relevance
    /\ max_suggestions_per_seed = o.per_seed
    /\ use_alphabet = o.alphabet
    /\ use_questions = o.questions
    /\ use_prepositions = o.prepositions
    /\ recursive = o.recursive

\* the run state as KeywordHarvester.__init__ creates it, nothing fetched,
\* exported or computed yet
Fresh ==
    /\ all_keywords = {}
    /\ keyword_data = <<>>
    /\ queue = <<>>
    /\ current_keyword = <<>>
    /\ depth = 0
    /\ all_suggestions = <<>>
    /\ si = 0
    /\ pc = "idle"
    /\ run = 0
    /\ discovered = <<>>
    /\ tripped = FALSE
    /\ supplied = 0
    /\ enqueued = <<>>
    /\ expanded = <<>>
    /\ issued = {}
    /\ in_flight = {}
    /\ started = 0
    /\ sent = <<>>
    /\ returned = <<>>
    /\ exported = NoExport
    /\ stats = NoStatistics
    /\ stats_from = <<>>
    /\ last_fetch = NoFetch

\* KeywordHarvester.__init__ with the options of a command line; the
\* arguments of the coming harvest_keywords call are those options too
Constructed(n) ==
    /\ \E o \in Options(n) :
          /\ Chosen(o)
          /\ seed_keywords = o.seeds
          /\ keywords = o.seeds
    /\ keywords_file = NoFile
    /\ stage = "constructed"
    /\ Fresh

Init == Constructed(MaxVaried)

\* harvest_keywords up to the first `while queue`: every seed is queued at
\* depth 0 and added to all_keywords
Harvest ==
    /\ stage = "constructed"
    /\ pc = "idle"
    /\ queue' = [i \in 1..Len(seed_keywords) |-> <<NormalizeSeed(seed_keywords[i]), 0>>]
    /\ all_keywords' =
           all_keywords \cup { NormalizeSeed(seed_keywords[i]) : i \in 1..Len(seed_keywords) }
    /\ current_keyword' = <<>>
    /\ depth' = 0
    /\ all_suggestions' = <<>>
    /\ si' = 0
    /\ pc' = "loop"
    /\ run' = run + 1
    /\ tripped' = FALSE
    /\ supplied' = 0
    /\ enqueued' = queue'
    /\ expanded' = <<>>
    /\ issued' = {}
    /\ UNCHANGED <<command, sched, last_fetch, config, args, keyword_data, discovered>>

\* the caller, after harvest_keywords returned or raised, is about to call
\* it again on the same KeywordHarvester with other seeds
CallAgain(seeds) ==
    /\ pc \in {"done", "raised"}
    /\ run < MaxRuns
    /\ seed_keywords' = seeds
    /\ pc' = "idle"
    /\ UNCHANGED <<expanded, command, sched, issued, last_fetch, enqueued, config, use_alphabet, use_questions, use_prepositions, recursive,
                   all_keywords, keyword_data, queue, current_keyword, depth,
                   all_suggestions, si, run, discovered, tripped, supplied>>

\* a depth check that lets one more level through
DepthExceededLate(d, md) == d > md + 1

\* `if depth > self.max_depth: continue`
DepthExceeded(d, md) == d > md

\* an entry read and left on the queue
PeekLeft(q) == q

\* the queue after `current_keyword, depth = queue.popleft()`
PopLeft(q) == Tail(q)

\* queue.popleft() and the depth check
Dequeue ==
    /\ pc = "loop"
    /\ queue # <<>>
    /\ queue' = PopLeft(queue)
    /\ current_keyword' = Head(queue)[1]
    /\ depth' = Head(queue)[2]
    /\ issued' = {}
    /\ \/ /\ DepthExceeded(Head(queue)[2], max_depth)
          /\ pc' = "loop"
          /\ UNCHANGED <<all_suggestions, si, expanded>>
       \/ /\ ~DepthExceeded(Head(queue)[2], max_depth)
          /\ pc' = "base"
          /\ expanded' = Append(expanded, Head(queue))
          /\ all_suggestions' = <<>>
          /\ si' = 1
    /\ UNCHANGED <<command, sched, last_fetch, enqueued, config, args, all_keywords, keyword_data, run, discovered, tripped,
                   supplied>>

\* where the loop over all_suggestions stands at position i of n
AfterSuggestion(i, n) == IF i > n THEN "loop" ELSE "process"

\* an alphabet expansion at every depth
AlphabetAppliesAtAnyDepth(ua, d) == ua

\* `if use_alphabet and depth == 0`
AlphabetApplies(ua, d) == ua /\ d = 0

\* the next await of the expansion after step `after`, or the loop over the
\* n combined suggestions: `if use_alphabet and depth == 0`,
\* `if use_questions`, `if use_prepositions`
RECURSIVE PhaseAfter(_, _)
PhaseAfter(after, n) ==
    CASE after = "base" ->
             IF AlphabetApplies(use_alphabet, depth) THEN "alphabet" ELSE PhaseAfter("alphabet", n)
      [] after = "alphabet" ->
             IF use_questions THEN "questions" ELSE PhaseAfter("questions", n)
      [] after = "questions" ->
             IF use_prepositions THEN "prepositions" ELSE PhaseAfter("prepositions", n)
      [] OTHER -> AfterSuggestion(1, n)

\* 1. base suggestions
FetchBase ==
    /\ pc = "base"
    /\ \E resp \in ResponseTable[MaxSupplied - supplied] :
          /\ all_suggestions' = FetchSuggestions(current_keyword, resp, min_relevance).results
          /\ supplied' = supplied + Size(resp)
    /\ pc' = PhaseAfter("base", Len(all_suggestions'))
    /\ issued' = issued \cup {"base"}
    /\ UNCHANGED <<expanded, command, sched, last_fetch, enqueued, config, args, all_keywords, keyword_data, queue, current_keyword,
                   depth, si, run, discovered, tripped>>

\* one _expand_with_modifiers call, its results appended to the combined list
Expand(modifiers, position) ==
    \E head \in HeadTable[MaxSupplied - supplied], quiet \in QuietResponses :
        /\ all_suggestions' =
               all_suggestions \o
               ExpandWithModifiers(current_keyword, modifiers, position,
                                   Answers(modifiers, head, quiet), min_relevance)
        /\ supplied' = supplied + Size(head)

\* 2. alphabet expansion (only at depth 0)
ExpandAlphabet ==
    /\ pc = "alphabet"
    /\ Expand(ALPHABET, "suffix")
    /\ pc' = PhaseAfter("alphabet", Len(all_suggestions'))
    /\ issued' = issued \cup {"alphabet"}
    /\ UNCHANGED <<expanded, command, sched, last_fetch, enqueued, config, args, all_keywords, keyword_data, queue, current_keyword,
                   depth, si, run, discovered, tripped>>

\* 3. question word expansion
ExpandQuestions ==
    /\ pc = "questions"
    /\ Expand(QUESTION_WORDS, "prefix")
    /\ pc' = PhaseAfter("questions", Len(all_suggestions'))
    /\ issued' = issued \cup {"questions"}
    /\ UNCHANGED <<expanded, command, sched, last_fetch, enqueued, config, args, all_keywords, keyword_data, queue, current_keyword,
                   depth, si, run, discovered, tripped>>

\* 4. preposition expansion
ExpandPrepositions ==
    /\ pc = "prepositions"
    /\ Expand(PREPOSITIONS, "suffix")
    /\ pc' = PhaseAfter("prepositions", Len(all_suggestions'))
    /\ issued' = issued \cup {"prepositions"}
    /\ UNCHANGED <<expanded, command, sched, last_fetch, enqueued, config, args, all_keywords, keyword_data, queue, current_keyword,
                   depth, si, run, discovered, tripped>>

\* `if keyword in self.all_keywords or keyword == current_keyword: continue`
\* a skip that looks at the keyword being expanded only
AlreadyProcessedCurrentOnly(keyword, seen, current) == keyword = current

AlreadyProcessed(keyword, seen, current) == keyword \in seen \/ keyword = current

\* an acceptance that appends the suggestion before its parent is recorded
AcceptedSuggestionNoParent(suggestion, d, current) ==
    [keyword |-> suggestion.keyword, relevance |-> suggestion.relevance,
     type |-> suggestion.type, source_query |-> suggestion.source_query,
     depth |-> d]

\* an acceptance that keeps the depth 0 that _fetch_suggestions wrote
AcceptedSuggestionDepthKept(suggestion, d, current) ==
    [keyword |-> suggestion.keyword, relevance |-> suggestion.relevance,
     type |-> suggestion.type, source_query |-> suggestion.source_query,
     depth |-> suggestion.depth, parent_keyword |-> current]

\* an acceptance that records the query as the parent
AcceptedSuggestionParentQuery(suggestion, d, current) ==
    [keyword |-> suggestion.keyword, relevance |-> suggestion.relevance,
     type |-> suggestion.type, source_query |-> suggestion.source_query,
     depth |-> d, parent_keyword |-> suggestion.source_query]

\* the suggestion dict as appended to keyword_data ('scraped_at', the wall
\* clock of the append, is left out)
AcceptedSuggestion(suggestion, d, current) ==
    [keyword |-> suggestion.keyword, relevance |-> suggestion.relevance,
     type |-> suggestion.type, source_query |-> suggestion.source_query,
     depth |-> d, parent_keyword |-> current]

\* an append that puts the entry on the queue twice
EnqueueTwice(q, entry) == Append(Append(q, entry), entry)

\* queue.append((keyword, depth + 1)) on the deque that popleft() empties
Enqueue(q, entry) == Append(q, entry)

\* an enqueue that does not look at recursive
ShouldEnqueueIgnoringRecursive(rec, d, md) == d < md

\* an enqueue that lets the deepest level enqueue one level more
ShouldEnqueueOneDeeper(rec, d, md) == rec /\ d <= md

\* `if recursive and depth < self.max_depth`
ShouldEnqueue(rec, d, md) == rec /\ d < md

\* a breaker that fires past the threshold only
BreakerReachedPast(seen, per_seed, seeds) == Cardinality(seen) > per_seed * Len(seeds)

\* `if len(self.all_keywords) >= self.max_suggestions_per_seed * len(seed_keywords)`
BreakerReached(seen, per_seed, seeds) == Cardinality(seen) >= per_seed * Len(seeds)

\* a breaker that leaves the queue as it is
QueueKept(fired, pushed) == pushed

\* `queue.clear()` when the breaker fired; pushed is the queue after the
\* `queue.append` of the accepted keyword, if any
QueueAfterAccept(fired, pushed) == IF fired THEN <<>> ELSE pushed

\* a loop over all_suggestions that goes on after the breaker fired
AfterAcceptNoBreak(fired, i, n) == [pc |-> AfterSuggestion(i + 1, n), si |-> i + 1]

\* where the loop over all_suggestions goes after accepting suggestion i of n:
\* `break` when the breaker fired (the loop variable stays), else the next
\* suggestion
AfterAccept(fired, i, n) ==
    IF fired THEN [pc |-> "loop", si |-> i]
    ELSE [pc |-> AfterSuggestion(i + 1, n), si |-> i + 1]

\* one iteration of `for suggestion in all_suggestions`
ProcessSuggestion ==
    /\ pc = "process"
    /\ si <= Len(all_suggestions)
    /\ LET suggestion == all_suggestions[si]
           keyword == NormalizeKeyword(suggestion.keyword.s)
           seen == all_keywords \cup {keyword}
           fired == BreakerReached(seen, max_suggestions_per_seed, seed_keywords)
           pushed == IF ShouldEnqueue(recursive, depth, max_depth)
                     THEN Enqueue(queue, <<keyword, depth + 1>>) ELSE queue
       IN  \/ \* suggestion['keyword'].lower() on a non-string: AttributeError
              \* leaves harvest_keywords
              /\ ~suggestion.keyword.isstr
              /\ pc' = "raised"
              /\ UNCHANGED <<all_keywords, keyword_data, queue, si, discovered, tripped,
                             enqueued>>
           \/ /\ suggestion.keyword.isstr
              /\ AlreadyProcessed(keyword, all_keywords, current_keyword)
              /\ si' = si + 1
              /\ pc' = AfterSuggestion(si + 1, Len(all_suggestions))
              /\ UNCHANGED <<all_keywords, keyword_data, queue, discovered, tripped,
                             enqueued>>
           \/ /\ suggestion.keyword.isstr
              /\ ~AlreadyProcessed(keyword, all_keywords, current_keyword)
              /\ keyword_data' =
                     Append(keyword_data,
                            AcceptedSuggestion(suggestion, depth, current_keyword))
              /\ all_keywords' = seen
              /\ discovered' = Append(discovered, keyword)
              /\ queue' = QueueAfterAccept(fired, pushed)
              /\ enqueued' = enqueued \o SubSeq(pushed, Len(queue) + 1, Len(pushed))
              /\ tripped' = (tripped \/ fired)
              /\ si' = AfterAccept(fired, si, Len(all_suggestions)).si
              /\ pc' = AfterAccept(fired, si, Len(all_suggestions)).pc
    /\ UNCHANGED <<expanded, command, sched, issued, last_fetch, config, args, current_keyword, depth, all_suggestions, run,
                   supplied>>

\* the queue is empty: sort by relevance and return self.keyword_data
Finish ==
    /\ pc = "loop"
    /\ queue = <<>>
    /\ keyword_data' = SortByRelevance(keyword_data)
    /\ pc' = "done"
    /\ UNCHANGED <<expanded, command, sched, issued, last_fetch, enqueued, config, args, all_keywords, queue, current_keyword, depth,
                   all_suggestions, si, run, discovered, tripped, supplied>>

\* one harvest_keywords call on a fresh KeywordHarvester
Next ==
    \/ Harvest
    \/ Dequeue
    \/ FetchBase
    \/ ExpandAlphabet
    \/ ExpandQuestions
    \/ ExpandPrepositions
    \/ ProcessSuggestion
    \/ Finish

Spec == Init /\ [][Next]_vars

\* one call on a fresh KeywordHarvester, fewer options off their defaults
InitCall == Constructed(MaxVaried - 1)

SpecCall == InitCall /\ [][Next]_vars

\* a call whose awaited fetches all return and which the event loop resumes
\* whenever it can go on; the options are off their defaults one at a time
InitFair == Constructed(1)

SpecFair == InitFair /\ [][Next]_vars /\ WF_vars(Next)

\* one _fetch_suggestions call on its own, with any answer of the endpoint
Fetch(query, resp) ==
    /\ pc = "idle"
    /\ run = 0
    /\ ~last_fetch.issued
    /\ last_fetch' =
           [issued |-> TRUE, query |-> query, resp |-> resp,
            results |-> FetchSuggestions(query, resp, min_relevance).results,
            slept |-> FetchSuggestions(query, resp, min_relevance).slept]
    /\ UNCHANGED <<expanded, command, sched, config, args, all_keywords, keyword_data, queue, current_keyword,
                   depth, all_suggestions, si, pc, run, discovered, tripped, supplied, enqueued,
                   issued>>

\* answers with a suggestion list of at most n items, in every payload shape:
\* scores shorter than the list, no scores, scores in the 4th element
ProbeResponses(n) ==
    FailureResponses \cup
    UNION { { Payload5(items, scores) : scores \in SeqsUpTo(RelValues, Len(items)) }
            \cup { Payload4(items, scores) : scores \in [1..Len(items) -> RelValues] }
            \cup { Payload2(items),
                   Response("none", 200, TRUE, TRUE,
                            <<JStr, JList(items), JList(<<>>), JList(<<>>),
                              JDict(FALSE, <<>>)>>),
                   Response("none", 200, TRUE, TRUE,
                            <<JStr, JList(items), JList(<<>>), JList(<<>>),
                              JList(<<>>)>>) }
          : items \in ItemLists(n) }

ProbeQueries == { <<"a">>, ModifierQuery(<<"a">>, QUESTION_WORDS[1], "prefix") }

NextFetch == \E query \in ProbeQueries, resp \in ProbeResponses(MaxSupplied) : Fetch(query, resp)

SpecFetch == Init /\ [][NextFetch]_vars

\* the modifiers of the fetch group at a position of the expansion
Modifiers(group) ==
    CASE group = "alphabet" -> ALPHABET
      [] group = "questions" -> QUESTION_WORDS
      [] group = "prepositions" -> PREPOSITIONS
      [] OTHER -> <<>>

\* a gather of every task that is left
BatchToEnd(i, n) == i..n

\* the tasks of `batch = tasks[i:i + batch_size]`, tasks[i] being the first
\* of n
Batch(i, n) == i..Min(i + batch_size - 1, n)

\* where _expand_with_modifiers puts the modifiers of a vocabulary
Position(group) == IF group = "questions" THEN "prefix" ELSE "suffix"

\* the query of the task f of the current entry
TaskQuery(f) ==
    IF f.group = "base" THEN current_keyword
    ELSE ModifierQuery(current_keyword, Modifiers(f.group)[f.index], Position(f.group))

\* an endpoint for the fetches taken one by one: it answers the base query
\* and the first two queries of a vocabulary with one suggestion each, fails
\* the third and has nothing for the others
SourceAnswer(f) ==
    CASE f.group = "base" -> Payload5(<<StrItem(<<"c">>)>>, <<1>>)
      [] f.group # "base" /\ f.index = 1 -> Payload5(<<StrItem(<<"A", " ">>)>>, <<1>>)
      [] f.group # "base" /\ f.index = 2 -> Payload5(<<StrItem(<<"c">>)>>, <<0>>)
      [] f.group # "base" /\ f.index = 3 -> Response("timeout", 200, TRUE, TRUE, <<>>)
      [] OTHER -> Payload2(<<>>)

\* results taken as the fetches complete
AsCompleted(arrived) == Flatten([i \in 1..Len(arrived) |-> arrived[i].results])

\* `results = await asyncio.gather(*batch, ...)`, `for result in results:
\* all_results.extend(result)`: the results in the order of the tasks,
\* whatever the order they arrived in
RECURSIVE Gather(_)
Gather(arrived) ==
    IF arrived = <<>> THEN <<>>
    ELSE LET first == CHOOSE a \in 1..Len(arrived) :
                          \A b \in 1..Len(arrived) : arrived[a].index <= arrived[b].index
             rest == [i \in 1..(Len(arrived) - 1) |->
                         IF i < first THEN arrived[i] ELSE arrived[i + 1]]
         IN  arrived[first].results \o Gather(rest)

\* `await self._fetch_suggestions(session, current_keyword)` begins
StartBase ==
    /\ pc = "base"
    /\ in_flight = {}
    /\ started = 0
    /\ in_flight' = {[group |-> "base", index |-> 1]}
    /\ started' = 1
    /\ sent' = <<TaskQuery([group |-> "base", index |-> 1])>>
    /\ returned' = <<>>
    /\ UNCHANGED <<expanded, command, config, args, all_keywords, keyword_data, queue, current_keyword,
                   depth, all_suggestions, si, pc, run, discovered, tripped, supplied,
                   enqueued, issued, last_fetch>>

\* `await asyncio.gather(*batch, return_exceptions=True)` begins: the
\* coroutines of the next batch start, each sending its query
StartBatch ==
    /\ pc \in {"alphabet", "questions", "prepositions"}
    /\ in_flight = {}
    /\ started < Len(Modifiers(pc))
    /\ in_flight' = { [group |-> pc, index |-> i] :
                         i \in Batch(started + 1, Len(Modifiers(pc))) }
    /\ started' = started + Cardinality(in_flight')
    /\ sent' = sent \o [i \in 1..Cardinality(in_flight') |->
                           TaskQuery([group |-> pc, index |-> started + i])]
    /\ returned' = <<>>
    /\ UNCHANGED <<expanded, command, config, args, all_keywords, keyword_data, queue, current_keyword,
                   depth, all_suggestions, si, pc, run, discovered, tripped, supplied,
                   enqueued, issued, last_fetch>>

\* one running _fetch_suggestions returns; when it is the last one of the
\* await, the await returns and the results are appended to the combined list
CompleteFetch(f) ==
    /\ f \in in_flight
    /\ in_flight' = in_flight \ {f}
    /\ LET results == FetchSuggestions(TaskQuery(f), SourceAnswer(f), min_relevance).results
       IN  returned' = IF results = <<>> THEN returned
                       ELSE Append(returned, [index |-> f.index, results |-> results])
    /\ all_suggestions' = IF in_flight' = {} THEN all_suggestions \o Gather(returned')
                          ELSE all_suggestions
    /\ UNCHANGED <<expanded, command, config, args, all_keywords, keyword_data, queue, current_keyword,
                   depth, si, pc, run, discovered, tripped, supplied,
                   enqueued, issued, started, sent, last_fetch>>

Complete == \E f \in in_flight : CompleteFetch(f)

\* the awaited fetch, or the last gather of the group, has returned: on to
\* the next group, or to the loop over the combined list
GroupDone ==
    /\ pc \in {"base", "alphabet", "questions", "prepositions"}
    /\ in_flight = {}
    /\ started = IF pc = "base" THEN 1 ELSE Len(Modifiers(pc))
    /\ pc' = PhaseAfter(pc, Len(all_suggestions))
    /\ issued' = issued \cup {pc}
    /\ started' = 0
    /\ UNCHANGED <<expanded, command, config, args, all_keywords, keyword_data, queue, current_keyword,
                   depth, all_suggestions, si, run, discovered, tripped, supplied,
                   enqueued, in_flight, sent, returned, last_fetch>>

\* harvest_keywords with its fetches taken one by one
NextBatches ==
    \/ Harvest
    \/ Dequeue
    \/ StartBase
    \/ StartBatch
    \/ Complete
    \/ GroupDone
    \/ ProcessSuggestion
    \/ Finish

\* default limits, any seeds and modifier vocabularies
InitBatches ==
    /\ Init
    /\ max_depth = BaseOptions.max_depth
    /\ min_relevance = BaseOptions.min_relevance
    /\ max_suggestions_per_seed = BaseOptions.per_seed
    /\ recursive = BaseOptions.recursive

SpecBatches == InitBatches /\ [][NextBatches]_vars

\* the KeywordHarvester is kept and harvest_keywords called on it again
NextReuse ==
    \/ Next
    \/ \E seeds \in SeedLists : CallAgain(seeds)

InitReuse == Constructed(MaxVaried - 1)

SpecReuse == InitReuse /\ [][NextReuse]_vars

(***************************************************************************)
(* The `harvest` command of cli.py around the harvester.                   *)
(***************************************************************************)

\* the lines of a keywords file, as `for line in f` yields them: a blank
\* line, a comment, the keyword "c" with a leading blank
BlankLine == <<"\n">>
CommentLine == <<"#", "a", "\n">>
KeywordLine == <<" ", "c", "\n">>

KeywordFiles ==
    { NoFile,
      [given |-> TRUE, lines |-> <<>>],
      [given |-> TRUE, lines |-> <<CommentLine, BlankLine>>],
      [given |-> TRUE, lines |-> <<CommentLine, KeywordLine>>] }

\* load_keywords_from_file: line.strip() for every line that is not blank
\* and does not start with '#'
RECURSIVE LoadKeywordsFromFile(_)
LoadKeywordsFromFile(lines) ==
    IF lines = <<>> THEN <<>>
    ELSE LET line == Head(lines)
         IN  (IF Strip(line) # <<>> /\ ~(line # <<>> /\ line[1] = "#")
              THEN <<Strip(line)>> ELSE <<>>)
             \o LoadKeywordsFromFile(Tail(lines))

\* keyword_list = list(keywords), extended by the file's keywords
KeywordList(ks, file) ==
    ks \o (IF file.given THEN LoadKeywordsFromFile(file.lines) ELSE <<>>)

\* a command that takes any keyword list
NoSeedsNeverReported(keyword_list) == FALSE

\* `if not keyword_list`
NoSeeds(keyword_list) == keyword_list = <<>>

\* the `harvest` command up to the KeywordHarvester it constructs, or to the
\* error it reports for an empty keyword list
HarvestCommand ==
    /\ stage = "command"
    /\ LET keyword_list == KeywordList(keywords, keywords_file)
       IN  IF NoSeeds(keyword_list)
           THEN /\ stage' = "config_error"
                /\ UNCHANGED seed_keywords
           ELSE /\ stage' = "constructed"
                /\ seed_keywords' = keyword_list
    /\ UNCHANGED <<expanded, sched, config, use_alphabet, use_questions, use_prepositions,
                   recursive, all_keywords, keyword_data, queue, current_keyword,
                   depth, all_suggestions, si, pc, run, discovered, tripped, supplied,
                   enqueued, issued, keywords, keywords_file, exported, stats,
                   stats_from, last_fetch>>

\* harvest_keywords returned: the export file is written from keyword_data
Export ==
    /\ stage = "constructed"
    /\ pc = "done"
    /\ exported' = [written |-> TRUE, data |-> keyword_data]
    /\ stage' = "exported"
    /\ UNCHANGED <<expanded, sched, config, args, all_keywords, keyword_data, queue,
                   current_keyword, depth, all_suggestions, si, pc, run, discovered,
                   tripped, supplied, enqueued, issued, keywords, keywords_file, stats,
                   stats_from, last_fetch>>

\* harvest_keywords raised: `except Exception` reports the error
Failed ==
    /\ stage = "constructed"
    /\ pc = "raised"
    /\ stage' = "failed"
    /\ UNCHANGED <<expanded, sched, config, args, all_keywords, keyword_data, queue,
                   current_keyword, depth, all_suggestions, si, pc, run, discovered,
                   tripped, supplied, enqueued, issued, keywords, keywords_file,
                   exported, stats, stats_from, last_fetch>>

\* round(p / q) for q > 0, ties to the even neighbour as Python rounds
RoundHalfEven(p, q) ==
    LET f == p \div q
        r == p % q
    IN  IF 2 * r < q THEN f
        ELSE IF 2 * r > q THEN f + 1
        ELSE IF f % 2 = 0 THEN f ELSE f + 1

RECURSIVE SumOver(_, _)
SumOver(f, n) == IF n = 0 THEN 0 ELSE f[n] + SumOver(f, n - 1)

\* len(s.split()): the words of s, separated by whitespace
RECURSIVE WordCount(_)
WordCount(s) ==
    IF s = <<>> THEN 0
    ELSE IF IsSpace(s[1]) THEN WordCount(Tail(s))
    ELSE IF Len(s) = 1 \/ IsSpace(s[2]) THEN 1 + WordCount(Tail(s))
    ELSE WordCount(Tail(s))

\* [:20] of the top keywords
top_count == 20

\* a division by zero raised in get_statistics
ZeroDivisionError == [computed |-> FALSE, raised |-> "ZeroDivisionError"]

\* get_statistics past its guard.  Averages are kept as the integers the
\* rounded decimals stand for: hundredths for average_relevance, tenths for
\* the others.
ComputeStatistics(data, seen) ==
    LET total_keywords == Len(data)
        relevances == [i \in 1..Len(data) |-> data[i].relevance]
        lengths == [i \in 1..Len(data) |-> Len(data[i].keyword.s)]
        word_counts == [i \in 1..Len(data) |-> WordCount(data[i].keyword.s)]
        long_tail == [i \in 1..Len(data) |-> IF word_counts[i] >= 3 THEN 1 ELSE 0]
        depths == { data[i].depth : i \in 1..Len(data) }
        top_keywords == SubSeq(SortByRelevance(data), 1, Min(top_count, Len(data)))
    IN  IF total_keywords = 0 THEN ZeroDivisionError
        ELSE [computed |-> TRUE,
              total_keywords |-> total_keywords,
              unique_keywords |-> Cardinality(seen),
              average_relevance |->
                  RoundHalfEven(100 * SumOver(relevances, Len(data)), total_keywords),
              average_keyword_length |->
                  RoundHalfEven(10 * SumOver(lengths, Len(data)), Len(data)),
              average_word_count |->
                  RoundHalfEven(10 * SumOver(word_counts, Len(data)), Len(data)),
              depth_distribution |->
                  [d \in depths |->
                      Cardinality({ i \in 1..Len(data) : data[i].depth = d })],
              top_keywords |->
                  [i \in 1..Len(top_keywords) |->
                      [keyword |-> top_keywords[i].keyword,
                       relevance |-> top_keywords[i].relevance,
                       depth |-> top_keywords[i].depth]],
              long_tail_percentage |->
                  RoundHalfEven(1000 * SumOver(long_tail, Len(data)), Len(data))]

\* get_statistics without its guard
GetStatisticsUnguarded(data, seen) == ComputeStatistics(data, seen)

\* get_statistics: `if not self.keyword_data` returns the empty aggregates
GetStatistics(data, seen) ==
    IF data = <<>>
    THEN [computed |-> TRUE, total_keywords |-> 0, unique_keywords |-> 0,
          average_relevance |-> 0, average_keyword_length |-> 0,
          average_word_count |-> 0, depth_distribution |-> <<>>,
          top_keywords |-> <<>>, long_tail_percentage |-> 0]
    ELSE ComputeStatistics(data, seen)

\* a get_statistics that sorts self.keyword_data itself
SortedInPlace(data) == SortByRelevance(data)

\* self.keyword_data after get_statistics: the method reads it, and
\* sorted(self.keyword_data, ...) builds a new list
KeywordDataAfterStatistics(data) == data

\* one call of get_statistics
CallGetStatistics ==
    /\ stats' = GetStatistics(keyword_data, all_keywords)
    /\ keyword_data' = KeywordDataAfterStatistics(keyword_data)
    /\ stats_from' = [data |-> keyword_data', seen |-> all_keywords]

\* after the export the command calls harvester.get_statistics(); an
\* exception it raises is reported by `except Exception`
Statistics ==
    /\ stage = "exported"
    /\ CallGetStatistics
    /\ stage' = IF stats'.computed THEN "reported" ELSE "failed"
    /\ UNCHANGED <<expanded, sched, config, args, all_keywords, queue,
                   current_keyword, depth, all_suggestions, si, pc, run, discovered,
                   tripped, supplied, enqueued, issued, keywords, keywords_file,
                   exported, last_fetch>>

\* one `harvest` command line: -k values, a keywords file or none, options
InitCommand ==
    /\ \E o \in Options(MaxVaried - 1) :
          /\ Chosen(o)
          /\ keywords = o.seeds
    /\ keywords_file \in KeywordFiles
    /\ seed_keywords = <<>>
    /\ stage = "command"
    /\ Fresh

NextCommand == HarvestCommand \/ Next \/ Export \/ Failed \/ Statistics

SpecCommand == InitCommand /\ [][NextCommand]_vars

\* get_statistics called on the harvester by another task, while
\* harvest_keywords is not running or is suspended in an await
StatisticsCall ==
    /\ stage = "constructed"
    /\ pc \in {"idle", "base", "alphabet", "questions", "prepositions", "done", "raised"}
    /\ CallGetStatistics
    /\ UNCHANGED <<expanded, sched, config, args, all_keywords, queue,
                   current_keyword, depth, all_suggestions, si, pc, run, discovered,
                   tripped, supplied, enqueued, issued, stage, keywords, keywords_file,
                   exported, last_fetch>>

NextStatistics == Next \/ StatisticsCall

InitStatistics == Constructed(MaxVaried - 1)

SpecStatistics == InitStatistics /\ [][NextStatistics]_vars

-----------------------------------------------------------------------------
\* Properties

\* the normalized keyword of a result entry
Norm(result) == NormalizeKeyword(result.keyword.s)

NormalizedSeeds == { NormalizeSeed(seed_keywords[i]) : i \in 1..Len(seed_keywords) }

Expanding == pc \in {"base", "alphabet", "questions", "prepositions", "process"}

\* the breaker threshold N of the current call
Threshold == max_suggestions_per_seed * Len(seed_keywords)

\* the queries the expansion of keyword k at depth d sends
SentQueries(k, d) ==
    {k}
    \cup (IF use_alphabet /\ d = 0
          THEN { ModifierQuery(k, ALPHABET[i], "suffix") : i \in 1..Len(ALPHABET) }
          ELSE {})
    \cup (IF use_questions
          THEN { ModifierQuery(k, QUESTION_WORDS[i], "prefix") : i \in 1..Len(QUESTION_WORDS) }
          ELSE {})
    \cup (IF use_prepositions
          THEN { ModifierQuery(k, PREPOSITIONS[i], "suffix") : i \in 1..Len(PREPOSITIONS) }
          ELSE {})

\* C1: in the list a harvest_keywords call returns, no two entries have the
\* same normalized keyword and no entry's normalized keyword is one of the
\* call's normalized seeds.
Deduplication ==
    pc = "done" =>
        /\ \A i, j \in 1..Len(keyword_data) :
               i # j => Norm(keyword_data[i]) # Norm(keyword_data[j])
        /\ \A i \in 1..Len(keyword_data) : Norm(keyword_data[i]) \notin NormalizedSeeds

\* C2: when a call ends, the seen set has at most N = max_suggestions_per_seed
\* * len(seed_keywords) members, not counting the keywords of the combined
\* suggestion list during which the breaker fired.
BreakerBound ==
    pc = "done" =>
        LET trip_batch ==
                IF tripped
                THEN { NormalizeKeyword(all_suggestions[i].keyword.s) :
                          i \in { j \in 1..Len(all_suggestions) :
                                     all_suggestions[j].keyword.isstr } }
                ELSE {}
        IN  Cardinality(all_keywords \ trip_batch) <= Threshold

\* C3: a normalized keyword is on the queue at most once, so seeds that
\* normalize to the same keyword are queued once and expanded once.
SeedQueuedOnce ==
    \A i, j \in 1..Len(queue) : i # j => queue[i][1] # queue[j][1]

\* C4: no answer of the endpoint to a single query makes harvest_keywords
\* raise: the call goes on to the following entries.
NoQueryAborts == pc # "raised"

\* C5: every _fetch_suggestions call sleeps rate_limit_delay before it
\* returns, whatever the endpoint answered.
SleepsAfterEveryFetch == last_fetch.issued => last_fetch.slept

\* C6: no frontier entry of depth > max_depth is expanded and every result has
\* 0 <= depth <= max_depth, for every integer max_depth.
DepthBound ==
    /\ Expanding => depth <= max_depth
    /\ \A i \in 1..Len(keyword_data) :
           /\ 0 <= keyword_data[i].depth
           /\ keyword_data[i].depth <= max_depth

\* a call has returned a result of the deepest level allowed
DepthBoundReached ==
    /\ pc = "done"
    /\ max_depth >= 1
    /\ \E i \in 1..Len(keyword_data) : keyword_data[i].depth = max_depth

\* the place of a keyword in the order of discovery
Discovery(keyword) == CHOOSE i \in 1..Len(discovered) : discovered[i] = keyword

\* C7: the returned list is in non-increasing relevance, entries of equal
\* relevance in the order of their discovery, however the loop ended.
Ranking ==
    pc = "done" =>
        \A i, j \in 1..Len(keyword_data) :
            i < j =>
                /\ keyword_data[i].relevance >= keyword_data[j].relevance
                /\ keyword_data[i].relevance = keyword_data[j].relevance
                       => Discovery(Norm(keyword_data[i])) < Discovery(Norm(keyword_data[j]))

\* a call the breaker ended returns its second discovery, of greater
\* relevance, before its first
RankingReached ==
    /\ pc = "done"
    /\ tripped
    /\ Len(keyword_data) = 2
    /\ Discovery(Norm(keyword_data[1])) = 2
    /\ keyword_data[1].relevance > keyword_data[2].relevance

\* C8: a harvest_keywords call starts with nothing but its own seeds in the
\* seen set and with no results.
RunStateFresh ==
    (pc = "loop" /\ current_keyword = <<>>) =>
        /\ all_keywords = NormalizedSeeds
        /\ keyword_data = <<>>

EnqueuedFor(keyword) == { i \in 1..Len(enqueued) : enqueued[i][1] = keyword }

\* C10: a result accepted while expanding (k, d) has depth d, parent_keyword k
\* and the query that was sent as source_query; its normalized keyword is
\* neither k nor seen before; it is enqueued once, at depth d + 1, if recursive
\* and d < max_depth, and not enqueued otherwise.
AcceptanceRecord ==
    \A i \in 1..Len(keyword_data) :
        LET result == keyword_data[i]
            k == result.parent_keyword
            d == result.depth
        IN  /\ \E e \in 1..Len(enqueued) : enqueued[e] = <<k, d>>
            /\ Expanding /\ k = current_keyword => d = depth
            /\ result.source_query \in SentQueries(k, d)
            /\ Norm(result) # k
            /\ Norm(result) \notin NormalizedSeeds
            /\ \A j \in 1..Len(keyword_data) :
                   j # i => Norm(keyword_data[j]) # Norm(result)
            /\ IF recursive /\ d < max_depth
               THEN /\ Cardinality(EnqueuedFor(Norm(result))) = 1
                    /\ \A e \in EnqueuedFor(Norm(result)) : enqueued[e][2] = d + 1
               ELSE EnqueuedFor(Norm(result)) = {}

\* a seed's expansion returned a new keyword and then the seed itself: one
\* result at depth 0, one queue entry at depth 1
AcceptanceRecordReached ==
    /\ pc = "loop"
    /\ Len(all_suggestions) = 2
    /\ NormalizeKeyword(all_suggestions[2].keyword.s) = current_keyword
    /\ Len(keyword_data) = 1
    /\ keyword_data[1].depth = 0
    /\ keyword_data[1].parent_keyword = current_keyword
    /\ queue = << <<Norm(keyword_data[1]), 1>> >>

\* C11: the alphabet expansion is issued only for an entry of depth 0, and
\* an expanded entry of any depth has had its question and preposition
\* expansions issued when they are enabled, and its alphabet expansion when
\* it is enabled and the depth is 0.
AlphabetOnce ==
    /\ pc = "alphabet" => depth = 0
    /\ "alphabet" \in issued => depth = 0 /\ use_alphabet
    /\ (pc \in {"process", "loop", "done", "raised"} /\ "base" \in issued) =>
           /\ use_questions <=> "questions" \in issued
           /\ use_prepositions <=> "prepositions" \in issued
           /\ (use_alphabet /\ depth = 0) <=> "alphabet" \in issued

\* an entry of depth 1 was expanded with alphabet and questions enabled: the
\* question expansion was issued, the alphabet expansion was not
AlphabetOnceReached ==
    /\ pc = "process"
    /\ depth = 1
    /\ recursive
    /\ use_alphabet
    /\ issued = {"base", "questions"}

\* C12: at most batch_size fetches are in flight; the fetches in flight
\* belong to the fetch group the expansion is at (the base fetch, or one
\* modifier vocabulary) and, within a vocabulary, to one batch.
BoundedBatches ==
    /\ Cardinality(in_flight) <= batch_size
    /\ \A f \in in_flight : f.group = pc
    /\ \A f, g \in in_flight :
           (f.index - 1) \div batch_size = (g.index - 1) \div batch_size

\* the second batch of the alphabet expansion has all its ten fetches in
\* flight
BoundedBatchesReached ==
    /\ pc = "alphabet"
    /\ started = 2 * batch_size
    /\ Cardinality(in_flight) = batch_size

\* C13: once the breaker has fired the call neither raises nor expands: the
\* queue is empty, the entry that was being expanded is still the last one
\* dequeued, no fetch group is entered, and the list the call returns holds
\* every keyword accepted, the one that fired the breaker included.
CleanTrip ==
    tripped =>
        /\ pc \in {"loop", "done"}
        /\ queue = <<>>
        /\ \E i \in 1..Len(keyword_data) :
               /\ Norm(keyword_data[i]) = discovered[Len(discovered)]
               /\ keyword_data[i].parent_keyword = current_keyword
               /\ keyword_data[i].depth = depth
        /\ Len(keyword_data) = Len(discovered)
        /\ { Norm(keyword_data[i]) : i \in 1..Len(keyword_data) }
               = { discovered[i] : i \in 1..Len(discovered) }

\* the breaker ended a call that had a keyword queued for expansion
CleanTripReached ==
    /\ pc = "done"
    /\ tripped
    /\ keyword_data # <<>>
    /\ \E e \in 1..Len(enqueued) :
           /\ enqueued[e][1] # current_keyword
           /\ enqueued[e][2] <= max_depth

\* harvest_keywords is suspended in an await: a fetch, or the fetches of a
\* modifier vocabulary, are under way
Suspended == pc \in {"base", "alphabet", "questions", "prepositions"}

\* every result has its normalized keyword in the seen set, shares it with
\* no other result and carries depth and parent_keyword
ValidResults ==
    \A i \in 1..Len(keyword_data) :
        /\ Norm(keyword_data[i]) \in all_keywords
        /\ \A j \in 1..Len(keyword_data) :
               j # i => Norm(keyword_data[j]) # Norm(keyword_data[i])
        /\ {"depth", "parent_keyword"} \subseteq DOMAIN keyword_data[i]

\* C14: no step taken while harvest_keywords is suspended in a fetch changes
\* the seen set, the results or the queue, and every step that changes the
\* seen set or the results leaves the results valid, so that a call
\* cancelled at any await leaves valid results.
CancellationConsistency ==
    [][/\ Suspended => UNCHANGED <<all_keywords, keyword_data, queue>>
       /\ ~UNCHANGED <<all_keywords, keyword_data>> => ValidResults']_vars

\* a call is suspended in the base fetch of a discovered keyword, with
\* results accumulated and the queue not drained
CancellationConsistencyReached ==
    /\ pc = "base"
    /\ depth = 1
    /\ keyword_data # <<>>
    /\ queue # <<>>

\* C15: the keyword field of every result is the normalized (lower-cased,
\* trimmed) form of the suggestion the endpoint returned.
NormalizedKeywordField ==
    \A i \in 1..Len(keyword_data) : keyword_data[i].keyword.s = Norm(keyword_data[i])

\* a parsed answer with a suggestion list
Listed(resp) ==
    /\ resp.exc = "none" /\ resp.status = 200 /\ resp.parses /\ resp.islist
    /\ Len(resp.elems) >= 2
    /\ resp.elems[2].t = "list"

\* a parsed answer that holds no 'google:suggestrelevance' scores
Unscored(resp) ==
    /\ Listed(resp)
    /\ \A e \in 1..Len(resp.elems) : ~(resp.elems[e].t = "dict" /\ resp.elems[e].key)

\* C16: every result _fetch_suggestions returns, the only source of result
\* entries, has relevance >= min_relevance; when the answer holds no scores
\* every result has relevance 0, and none is returned if min_relevance > 0.
RelevanceFloor ==
    last_fetch.issued =>
        /\ \A i \in 1..Len(last_fetch.results) :
               last_fetch.results[i].relevance >= min_relevance
        /\ Unscored(last_fetch.resp) =>
               /\ \A i \in 1..Len(last_fetch.results) :
                      last_fetch.results[i].relevance = 0
               /\ min_relevance > 0 => last_fetch.results = <<>>
        /\ (Unscored(last_fetch.resp) /\ min_relevance <= 0) =>
               Len(last_fetch.results) = Len(last_fetch.resp.elems[2].items)

\* min_relevance is 1 and the answer has two suggestions and the score 1 for
\* the first only: the first is returned, the second is not
RelevanceFloorReached ==
    /\ last_fetch.issued
    /\ min_relevance = 1
    /\ Len(last_fetch.resp.elems) = 5
    /\ Len(last_fetch.resp.elems[2].items) = 2
    /\ last_fetch.resp.elems[5] = JDict(TRUE, <<1>>)
    /\ Len(last_fetch.results) = 1
    /\ last_fetch.results[1].keyword = last_fetch.resp.elems[2].items[1]

\* C17: get_statistics on a harvester without results returns the empty
\* aggregates (every number 0, no depth distribution, no top keywords), also
\* when the seen set holds the seeds, and never raises a division by zero.
EmptyStatistics ==
    stage \in {"reported", "failed"} =>
        /\ stats # ZeroDivisionError
        /\ (stats.computed /\ keyword_data = <<>>) =>
               /\ stats.total_keywords = 0
               /\ stats.unique_keywords = 0
               /\ stats.average_relevance = 0
               /\ stats.average_keyword_length = 0
               /\ stats.average_word_count = 0
               /\ stats.long_tail_percentage = 0
               /\ DOMAIN stats.depth_distribution = {}
               /\ stats.top_keywords = <<>>

\* the statistics of a harvest that recorded its seeds and accepted nothing
EmptyStatisticsReached ==
    /\ stage = "reported"
    /\ keyword_data = <<>>
    /\ all_keywords # {}
    /\ stats.total_keywords = 0

\* no -k value, and no file or a file of blank and comment lines only
NoKeywordGiven ==
    /\ keywords = <<>>
    /\ keywords_file.given =>
           \A l \in 1..Len(keywords_file.lines) :
               \/ Strip(keywords_file.lines[l]) = <<>>
               \/ keywords_file.lines[l][1] = "#"

\* C19: a command without seed keywords only reports the error: no
\* KeywordHarvester is constructed, harvest_keywords is not called and no
\* export file is written.
ConfigurationGate ==
    /\ NoKeywordGiven => stage \in {"command", "config_error"}
    /\ stage = "config_error" =>
           /\ NoKeywordGiven
           /\ run = 0
           /\ pc = "idle"
           /\ all_keywords = {}
           /\ exported = NoExport

\* the error is reported for a keywords file that holds no keyword
ConfigurationGateReached ==
    /\ stage = "config_error"
    /\ keywords_file.given
    /\ keywords_file.lines # <<>>

\* C18: without recursive and with max_depth >= 0, only the seeds are ever
\* queued, every expanded entry is a seed at depth 0, every result has depth
\* 0, and every test of max_depth the call makes comes out the same for every
\* max_depth >= 0, so that the results do not depend on it.
SinglePass ==
    (~recursive /\ max_depth >= 0) =>
        /\ pc = "idle" \/
              enqueued = [i \in 1..Len(seed_keywords) |->
                             <<NormalizeSeed(seed_keywords[i]), 0>>]
        /\ Expanding => depth = 0 /\ current_keyword \in NormalizedSeeds
        /\ \A i \in 1..Len(keyword_data) : keyword_data[i].depth = 0
        /\ \A md \in { m \in MaxDepthChoices : m >= 0 } :
               /\ DepthExceeded(depth, md) = DepthExceeded(depth, max_depth)
               /\ \A q \in 1..Len(queue) :
                      DepthExceeded(queue[q][2], md)
                          = DepthExceeded(queue[q][2], max_depth)
               /\ pc = "process" =>
                      ShouldEnqueue(recursive, depth, md)
                          = ShouldEnqueue(recursive, depth, max_depth)

\* a call without recursive and with max_depth 1 returned results
SinglePassReached ==
    /\ pc = "done"
    /\ ~recursive
    /\ max_depth = 1
    /\ keyword_data # <<>>
    /\ Len(enqueued) = Len(seed_keywords)

\* C20: with max_depth >= 0 every entry put on the queue has a depth of at
\* most max_depth, and no dequeued entry has a greater one: the discard
\* branch of the depth check is never taken.
FrontierDepth ==
    max_depth >= 0 =>
        /\ \A e \in 1..Len(enqueued) : enqueued[e][2] <= max_depth
        /\ \A q \in 1..Len(queue) : ~DepthExceeded(queue[q][2], max_depth)
        /\ ~DepthExceeded(depth, max_depth)

\* a keyword was queued at the deepest level and a result of that level was
\* accepted without being queued
FrontierDepthReached ==
    /\ pc = "done"
    /\ max_depth = 1
    /\ \E e \in 1..Len(enqueued) : enqueued[e][2] = max_depth
    /\ \E i \in 1..Len(keyword_data) :
           /\ keyword_data[i].depth = max_depth
           /\ EnqueuedFor(Norm(keyword_data[i])) = {}

\* C21: the queue is first in, first out with depths that never decrease:
\* every entry waiting has at least the depth of the entry dequeued last and
\* the entries wait in order of depth, so a depth-d entry is expanded before
\* any of depth d + 1; while a call runs, before its final sort, the results
\* have depths that never decrease along the list.
BreadthFirst ==
    pc # "idle" =>
        /\ \A q \in 1..Len(queue) : queue[q][2] >= depth
        /\ \A p, q \in 1..Len(queue) : p < q => queue[p][2] <= queue[q][2]
        /\ tripped \/ \E n \in 0..Len(enqueued) :
                          queue = SubSeq(enqueued, n + 1, Len(enqueued))
        /\ pc # "done" =>
               \A i, j \in 1..Len(keyword_data) :
                   i < j => keyword_data[i].depth <= keyword_data[j].depth

\* the queries the expansion of (k, d) is to send, in order: k, "k x" for the
\* letters, "w k" for the question words, "k p" for the prepositions
ExpectedQueries(k, d) ==
    <<k>>
    \o (IF use_alphabet /\ d = 0
        THEN [i \in 1..26 |-> k \o <<" ">> \o ALPHABET[i]] ELSE <<>>)
    \o (IF use_questions
        THEN [i \in 1..11 |-> QUESTION_WORDS[i] \o <<" ">> \o k] ELSE <<>>)
    \o (IF use_prepositions
        THEN [i \in 1..10 |-> k \o <<" ">> \o PREPOSITIONS[i]] ELSE <<>>)

\* the expansion of the current entry is under way, its base query sent
QueriesUnderWay ==
    \/ pc = "base" /\ started = 1
    \/ pc \in {"alphabet", "questions", "prepositions", "process"}
    \/ pc \in {"loop", "done", "raised"} /\ "base" \in issued

\* every fetch of the expansion has returned
QueriesComplete == pc \in {"process", "loop", "done", "raised"} /\ "base" \in issued

\* C22: the queries sent for the entry (k, d) are the first ones of k, "k x"
\* for each letter iff use_alphabet and d = 0, "w k" for each question word
\* iff use_questions, "k p" for each preposition iff use_prepositions; when
\* the expansion is complete all of them were sent; none is sent twice,
\* whether its fetch returned suggestions, failed or returned nothing; the
\* source_query of a suggestion is the query of the fetch that returned it.
QueriesOnce ==
    QueriesUnderWay =>
        LET expected == ExpectedQueries(current_keyword, depth)
        IN  /\ Len(sent) <= Len(expected)
            /\ sent = SubSeq(expected, 1, Len(sent))
            /\ QueriesComplete => sent = expected
            /\ \A i, j \in 1..Len(sent) : sent[i] = sent[j] => i = j
            /\ started > 0 =>
                   \A r \in 1..Len(returned) : \A n \in 1..Len(returned[r].results) :
                       returned[r].results[n].source_query
                           = expected[Len(sent) - started + returned[r].index]
            /\ \A n \in 1..Len(all_suggestions) :
                   \E i \in 1..Len(sent) : all_suggestions[n].source_query = sent[i]

\* the expansion of a seed with letters and question words is complete: 38
\* queries were sent, among them two that failed and five that returned a
\* suggestion
QueriesOnceReached ==
    /\ pc = "process"
    /\ depth = 0
    /\ Len(sent) = 38
    /\ issued = {"base", "alphabet", "questions"}
    /\ Len(all_suggestions) = 5

\* the suggestions of a vocabulary when its fetches are made one after the
\* other
Sequential(group) ==
    ExpandWithModifiers(current_keyword, Modifiers(group), Position(group),
                        [i \in 1..Len(Modifiers(group)) |->
                            SourceAnswer([group |-> group, index |-> i])],
                        min_relevance)

\* the combined list of the groups in done, fetched one after the other
SequentialList(done) ==
    (IF "base" \in done
     THEN FetchSuggestions(current_keyword,
                           SourceAnswer([group |-> "base", index |-> 1]),
                           min_relevance).results
     ELSE <<>>)
    \o (IF "alphabet" \in done THEN Sequential("alphabet") ELSE <<>>)
    \o (IF "questions" \in done THEN Sequential("questions") ELSE <<>>)
    \o (IF "prepositions" \in done THEN Sequential("prepositions") ELSE <<>>)

\* the place of a query among the queries of the current entry
QueryRank(query) ==
    LET expected == ExpectedQueries(current_keyword, depth)
    IN  CHOOSE i \in 1..Len(expected) : expected[i] = query

\* C23: the combined list holds the base suggestions, then those of the
\* letters, of the question words and of the prepositions, inside a vocabulary
\* in the order of the modifiers; whatever the order in which the fetches of a
\* batch completed, it is the list that fetching one query after the other
\* gives, and of the suggestions with one normalized keyword the one accepted
\* is the one of the earliest query.
MergeOrder ==
    /\ \A i, j \in 1..Len(all_suggestions) :
           i < j => QueryRank(all_suggestions[i].source_query)
                        <= QueryRank(all_suggestions[j].source_query)
    /\ (in_flight = {} /\ started = 0) => all_suggestions = SequentialList(issued)
    /\ \A r \in 1..Len(keyword_data), n \in 1..Len(all_suggestions) :
           (/\ keyword_data[r].parent_keyword = current_keyword
            /\ keyword_data[r].depth = depth
            /\ Norm(all_suggestions[n]) = Norm(keyword_data[r]))
           => QueryRank(keyword_data[r].source_query)
                  <= QueryRank(all_suggestions[n].source_query)

\* the second fetch of a batch returned its suggestion before the first one
\* did, and the batch is merged: the suggestion of the first modifier comes
\* first
MergeOrderReached ==
    /\ pc = "questions"
    /\ in_flight = {}
    /\ Len(returned) = 2
    /\ returned[1].index = 2
    /\ returned[2].index = 1
    /\ Len(all_suggestions) >= 2
    /\ all_suggestions[Len(all_suggestions) - 1] = returned[2].results[1]
    /\ all_suggestions[Len(all_suggestions)] = returned[1].results[1]

\* the results of the latest fetch are the suggestions of its answer whose
\* score is at least min_relevance, each with its score, in the order of the
\* answer; score[j] is the score of the j-th suggestion
ScoredResults(score) ==
    LET items == last_fetch.resp.elems[2].items
        kept == { j \in 1..Len(items) : score[j] >= min_relevance }
        Kept(k) == CHOOSE j \in kept : Cardinality({ m \in kept : m < j }) = k - 1
    IN  /\ Len(last_fetch.results) = Cardinality(kept)
        /\ \A k \in 1..Len(last_fetch.results) :
               /\ last_fetch.results[k].keyword = items[Kept(k)]
               /\ last_fetch.results[k].relevance = score[Kept(k)]

\* the scores element e of the latest answer gives to the suggestions: those
\* under the key `google:suggestrelevance` if e is there, is a dict and holds
\* the key, 0 for a suggestion without one
ScoresOf(e) ==
    LET elems == last_fetch.resp.elems
        scores == IF e <= Len(elems) /\ elems[e].t = "dict" /\ elems[e].key
                  THEN elems[e].rel ELSE <<>>
    IN  [j \in 1..Len(elems[2].items) |-> IF j <= Len(scores) THEN scores[j] ELSE 0]

StatisticsStep == stats' # stats \/ stats_from' # stats_from

\* C25: a get_statistics call leaves keyword_data, contents and order, and
\* all_keywords as they were; a call made when both are as the call before
\* left them returns what that call returned.
StatisticsReadOnly ==
    [][StatisticsStep =>
          /\ UNCHANGED <<keyword_data, all_keywords>>
          /\ (/\ stats.computed
              /\ stats_from = [data |-> keyword_data, seen |-> all_keywords])
             => stats' = stats]_vars

\* statistics were taken while the results were not in order of relevance
StatisticsReadOnlyReached ==
    /\ stats.computed
    /\ pc = "base"
    /\ stats_from = [data |-> keyword_data, seen |-> all_keywords]
    /\ Len(keyword_data) = 2
    /\ keyword_data[1].relevance < keyword_data[2].relevance
    /\ stats.top_keywords[1].keyword = keyword_data[2].keyword

\* in a call on a fresh harvester the seen set holds the distinct normalized
\* seeds and the normalized keyword of every result, once each
Accounting ==
    pc # "idle" =>
        Cardinality(all_keywords) = Len(keyword_data) + Cardinality(NormalizedSeeds)

\* C26 as stated: the accounting holds at every point of the call, and the
\* unique_keywords statistic counts the seeds, which total_keywords does not.
SeedsCounted ==
    /\ Accounting
    /\ (stage = "reported" /\ stats.computed) =>
           /\ stats.total_keywords = Len(keyword_data)
           /\ stats.unique_keywords = Len(keyword_data) + Cardinality(NormalizedSeeds)

\* C26, amended: the accounting holds at every point of the call; when there
\* is a result, unique_keywords counts the seeds and total_keywords does not;
\* without a result get_statistics reports unique_keywords = 0 although the
\* seen set holds the seeds.
SeedsCountedWithResults ==
    /\ Accounting
    /\ (stage = "reported" /\ stats.computed) =>
           /\ stats.total_keywords = Len(keyword_data)
           /\ stats.unique_keywords =
                  IF keyword_data = <<>> THEN 0
                  ELSE Len(keyword_data) + Cardinality(NormalizedSeeds)

\* statistics over two results of a call with two seeds that normalize to one
SeedsCountedWithResultsReached ==
    /\ stage = "reported"
    /\ Len(seed_keywords) = 2
    /\ Cardinality(NormalizedSeeds) = 1
    /\ stats.total_keywords = 2
    /\ stats.unique_keywords = 3

\* C27: with N the threshold (the raw seed count times
\* max_suggestions_per_seed) and D the number of distinct normalized seeds, the
\* seen set of a call on a fresh harvester never has more than max(N, D + 1)
\* keywords; when N > D the breaker has fired exactly when the seen set has N
\* keywords, and it has no more; when N <= D the breaker fires with the first
\* suggestion accepted, and no second one is accepted.
ExactBreakerBound ==
    pc # "idle" =>
        LET N == Threshold
            D == Cardinality(NormalizedSeeds)
            size == Cardinality(all_keywords)
        IN  /\ size <= (IF N > D + 1 THEN N ELSE D + 1)
            /\ N > D => (tripped <=> size = N)
            /\ N <= D => /\ Len(keyword_data) <= 1
                         /\ tripped <=> Len(keyword_data) = 1

\* the breaker fired at a threshold of 3 with one seed: the second suggestion
\* accepted made the seen set reach 3
ExactBreakerBoundReached ==
    /\ pc = "done"
    /\ tripped
    /\ Threshold = 3
    /\ Cardinality(NormalizedSeeds) = 1
    /\ Cardinality(all_keywords) = 3
    /\ Len(keyword_data) = 2

\* the call has left harvest_keywords on an item of the source that is no
\* keyword (a string)
RaisedOnNonKeyword ==
    /\ pc = "raised"
    /\ si \in 1..Len(all_suggestions)
    /\ ~all_suggestions[si].keyword.isstr

\* C28: when every fetch returns and the loop is resumed whenever it can go
\* on, a harvest_keywords call over a source of keywords ends: the queue is
\* emptied and the results are returned.  (A source item that is no string is
\* no keyword: on it the call ends as well, by raising.)
Termination == <>((pc = "done" /\ queue = <<>>) \/ RaisedOnNonKeyword)

\* a call returned after expanding a seed and a keyword it discovered
TerminationReached ==
    /\ pc = "done"
    /\ queue = <<>>
    /\ ~tripped
    /\ depth = 1
    /\ Len(enqueued) = 2
    /\ keyword_data # <<>>

\* the results whose normalized keyword is k
ResultsOf(k) == { i \in 1..Len(keyword_data) : Norm(keyword_data[i]) = k }

\* following parent_keyword from the keyword k reaches a seed in exactly n
\* steps
RECURSIVE StepsToSeed(_, _)
StepsToSeed(k, n) ==
    IF n = 0 THEN k \in NormalizedSeeds
    ELSE \E i \in ResultsOf(k) :
             StepsToSeed(keyword_data[i].parent_keyword, n - 1)

\* C29: in a call on a fresh harvester the parent_keyword of a result of
\* depth d > 0 is the normalized keyword of a result of depth d - 1, that of a
\* result of depth 0 is a normalized seed; following parent_keyword from a
\* result reaches a seed in exactly depth + 1 steps.
ParentChain ==
    \A i \in 1..Len(keyword_data) :
        LET result == keyword_data[i]
        IN  /\ result.depth > 0 =>
                   \E j \in 1..Len(keyword_data) :
                       /\ keyword_data[j].depth = result.depth - 1
                       /\ Norm(keyword_data[j]) = result.parent_keyword
            /\ result.depth = 0 => result.parent_keyword \in NormalizedSeeds
            /\ result.depth >= 0
            /\ StepsToSeed(Norm(result), result.depth + 1)

\* a result of depth 1 whose parent is a result of depth 0 found with a
\* question word
ParentChainReached ==
    \E i, j \in 1..Len(keyword_data) :
        /\ keyword_data[i].depth = 1
        /\ keyword_data[j].depth = 0
        /\ Norm(keyword_data[j]) = keyword_data[i].parent_keyword
        /\ keyword_data[j].source_query # keyword_data[j].parent_keyword
        /\ keyword_data[j].parent_keyword \in NormalizedSeeds

\* how often the keyword k is in a sequence of (keyword, depth) entries
TimesIn(k, entries) == Cardinality({ i \in 1..Len(entries) : entries[i][1] = k })

\* how often the keyword k is in the seed list, as normalized
TimesSeed(k) ==
    Cardinality({ i \in 1..Len(seed_keywords) : NormalizeSeed(seed_keywords[i]) = k })

\* C30: in a call on a fresh harvester a discovered keyword is put on the
\* queue at most once; a keyword is expanded more than once only if it is
\* more than once in the seed list, and then not more often than it is there;
\* the entries expanded are not more than the seeds and the results together.
SingleExpansion ==
    pc # "idle" =>
        /\ \A d \in 1..Len(discovered) :
               TimesIn(discovered[d], enqueued) <= 1
        /\ \A e \in 1..Len(expanded) :
               LET k == expanded[e][1]
                   times == TimesIn(k, expanded)
               IN  times > 1 =>
                       /\ TimesSeed(k) > 1
                       /\ times <= TimesSeed(k)
        /\ Len(expanded) <= Len(seed_keywords) + Len(keyword_data)

\* a call expanded its seed and the two keywords it discovered, each once
SingleExpansionReached ==
    /\ pc = "done"
    /\ Len(seed_keywords) = 1
    /\ Len(keyword_data) = 2
    /\ Len(expanded) = 3
    /\ \A d \in 1..Len(discovered) :
           TimesIn(discovered[d], expanded) = 1

====
